---- MODULE Spec2Model ----
(***************************************************************************)
(* A model of strutil (src/src/strutil.c): one struct Str handle, its      *)
(* heap buffer and its pthread mutex, operated on by up to two threads.    *)
(*                                                                         *)
(* A buffer is the sequence of the bytes of its allocation, so its length  *)
(* is the allocation's size and strlen() is computed by scanning for the   *)
(* first zero byte, as the C library does.  The NULL pointer is <<>>.      *)
(*                                                                         *)
(* Every handler is split where the code lets other threads in: the       *)
(* argument checks made before pthread_mutex_lock (one step, together with *)
(* the call), the acquisition of the lock (one step), and the critical     *)
(* section up to and including the pthread_mutex_unlock of the exit path   *)
(* taken (one step).  str_free takes no lock and is split per statement.   *)
(*                                                                         *)
(* The struct Pointer_counter list is a second, independent part of the    *)
(* state: its functions compare struct Str addresses and never look into   *)
(* a handle, so a handle is an identity there.  They take no lock; each    *)
(* call is one step of a single caller.                                    *)
(***************************************************************************)
EXTENDS Integers, Sequences, FiniteSets, TLC

VARIABLES
    data,        \* self->data: NULL or the bytes of the allocation
    is_dynamic,  \* self->is_dynamic
    lock,        \* owner of self->lock, 0 when free
    dangling,    \* self->data still holds the address of a freed block
    self_freed,  \* free(self) and pthread_mutex_destroy(&self->lock) done
    destroyed,   \* a call of str_free has returned
    threads,     \* the threads that call the library
    pc,          \* per thread: "idle", "lock", "cs", "ret", "trap", ...
    op,          \* per thread: the function being executed
    arg,         \* per thread: its arguments
    ret,         \* per thread: the value returned
    oom,         \* per thread: an allocation failed during the call
    held,        \* per thread: pthread_mutex_lock calls minus unlock calls
    pre,         \* history: self->data when the call in progress was made
    appended,    \* history: arguments of the successful str_add calls
    fault,       \* per thread: undefined behaviour its call executed, or "none"
    reg_head,    \* the caller's struct Pointer_counter *: a node address or 0
    reg_node,    \* per node address: str_ptr, next, counter, and whether live
    reg_last,    \* history: the last pointer_counter_* call and the list before it
    reg_prev,    \* history: the call before that one
    reg_fault,   \* undefined behaviour the last pointer_counter_* call executed
    reg_pc       \* "run", or "trap" once such a call was killed

vars == <<data, is_dynamic, lock, dangling, self_freed, destroyed, threads,
          pc, op, arg, ret, oom, held, pre, appended, fault,
          reg_head, reg_node, reg_last, reg_prev, reg_fault, reg_pc>>

handleVars == <<data, is_dynamic, lock, dangling, self_freed, destroyed>>

regVars == <<reg_head, reg_node, reg_last, reg_prev, reg_fault, reg_pc>>
strVars == <<handleVars, threads, pc, op, arg, ret, oom, held, pre, appended, fault>>

-----------------------------------------------------------------------------
(* Bounds *)

\* longest content a call may build when one thread owns the handle
MaxLen == 3
\* node addresses the allocator hands out for struct Pointer_counter
MaxNodes == 3
\* the same when two threads share it
MaxLenShared == 2

-----------------------------------------------------------------------------
(* Program constants *)

EINVAL == 22
ENOMEM == 12
\* size_t is modelled 31 bits wide; no bounded run comes near the ceiling
SIZE_MAX == 2147483647
MAX_STRING_SIZE == (SIZE_MAX \div 100) * 95
CHUNK_SIZE == 10

NULL == <<>>
\* a byte of an allocation that has not been written yet
Junk == 255

AllThreads == {1, 2}
Concurrent == Cardinality(threads) > 1

\* the text of a C string literal, as a zero-terminated byte array
CStr(s) == s \o <<0>>

\* bytes used: ' ' = 32, '/' = 47, 'A' = 65, 'a' = 97
\* the string arguments callers pass, and the lines typed on stdin
Words ==
    IF Concurrent
    THEN {CStr(<<97>>)}
    ELSE {CStr(<<>>), CStr(<<32>>), CStr(<<47>>), CStr(<<65>>), CStr(<<97>>),
          CStr(<<97, 97>>), CStr(<<47, 97>>), CStr(<<65, 97>>)}
Lines == IF Concurrent THEN {<<97>>} ELSE {<<>>, <<97>>, <<32, 97>>}
Seps == IF Concurrent THEN {97} ELSE {0, 32, 47, 65, 97}
\* string arguments, absent ones included
WordArgs == Words \cup {NULL}
\* whether the handle argument is present
Selfs == BOOLEAN
Limit == IF Concurrent THEN MaxLenShared ELSE MaxLen

-----------------------------------------------------------------------------
(* The C library, on byte arrays *)

strlen(s) ==
    IF \E i \in 1..Len(s) : s[i] = 0
    THEN (CHOOSE i \in 1..Len(s) : s[i] = 0 /\ \A j \in 1..(i - 1) : s[j] # 0) - 1
    ELSE Len(s)

\* the bytes before the terminator
Text(s) == SubSeq(s, 1, strlen(s))

malloc(n) == [i \in 1..n |-> Junk]

realloc(s, n) == [i \in 1..n |-> IF i <= Len(s) THEN s[i] ELSE Junk]

\* strcpy(dst, src) and strcat(dst, src); a byte past dst's end is dropped
\* by the model (no caller in strutil.c overruns dst)
strcpy(dst, src) ==
    [i \in 1..Len(dst) |-> IF i <= strlen(src) + 1 THEN src[i] ELSE dst[i]]

strcat(dst, src) ==
    LET n == strlen(dst)
    IN  [i \in 1..Len(dst) |->
            IF i > n /\ i <= n + strlen(src) + 1 THEN src[i - n] ELSE dst[i]]

\* strncpy(dst, src, n) for n <= strlen(src): n bytes, no terminator
strncpy(dst, src, n) ==
    [i \in 1..Len(dst) |-> IF i <= n THEN src[i] ELSE dst[i]]

\* memmove of n bytes inside s, from index from to index to (1-based)
memmove(s, to, from, n) ==
    [i \in 1..Len(s) |-> IF i >= to /\ i < to + n THEN s[i - to + from] ELSE s[i]]

\* strrchr(s, c): 1-based index of the last c in s, terminator included; 0 for NULL
strrchr(s, c) ==
    LET hits == {i \in 1..(strlen(s) + 1) : i <= Len(s) /\ s[i] = c}
    IN  IF hits = {} THEN 0 ELSE CHOOSE i \in hits : \A j \in hits : j <= i

\* strstr(h, n): 1-based index of the first occurrence of n in h; 0 for NULL
strstr(h, n) ==
    LET hl == strlen(h)
        nl == strlen(n)
        hits == {i \in 1..(hl + 1) :
                    i + nl - 1 <= hl /\ \A k \in 1..nl : h[i + k - 1] = n[k]}
    IN  IF hits = {} THEN 0 ELSE CHOOSE i \in hits : \A j \in hits : i <= j

\* c & ~(1 << 5) and c | (1 << 5)
ClearBit5(c) == c - ((c \div 32) % 2) * 32
SetBit5(c) == c + (1 - ((c \div 32) % 2)) * 32

-----------------------------------------------------------------------------
(* The critical sections, as functions of the buffer, the arguments and    *)
(* whether the allocator satisfies the request.  Each returns the new      *)
(* self->data, the value returned, whether an allocation failed, and       *)
(* whether the exit path taken calls pthread_mutex_unlock.                 *)

Exit(d, r, failed, unlocked) ==
    [data |-> d, ret |-> r, oom |-> failed, unlock |-> unlocked]

\* str_add with strcpy where the code has strcat
str_add_cs_overwrite(d, w, ok) ==
    LET size == strlen(w)
    IN  IF d # NULL
        THEN IF ok
             THEN Exit(strcpy(realloc(d, size + strlen(d) + 1), w), 0, FALSE, TRUE)
             ELSE Exit(d, -ENOMEM, TRUE, TRUE)
        ELSE IF ~ok
             THEN Exit(NULL, -1, TRUE, TRUE)
             ELSE Exit(strcpy(malloc(size + 1), w), 0, FALSE, TRUE)

str_add_cs(d, w, ok) ==
    LET size == strlen(w)
    IN  IF d # NULL
        THEN IF ok
             THEN Exit(strcat(realloc(d, size + strlen(d) + 1), w), 0, FALSE, TRUE)
             ELSE Exit(d, -ENOMEM, TRUE, TRUE)
        ELSE IF ~ok
             THEN Exit(NULL, -1, TRUE, TRUE)
             ELSE LET b == strcpy(malloc(size + 1), w)
                  IN  IF strlen(b) # strlen(w)
                      THEN Exit(b, -1, FALSE, TRUE)
                      ELSE Exit(b, 0, FALSE, TRUE)

\* the while loop of get_dyn_input: the final current_size, or -1 when the
\* size bound stops the read
RECURSIVE dyn_input_loop(_, _, _, _)
dyn_input_loop(line, length, current_size, max_str_size) ==
    IF length = Len(line) THEN current_size
    ELSE LET grown == IF length + 1 >= current_size
                      THEN current_size + CHUNK_SIZE ELSE current_size
         IN  IF grown >= max_str_size - 1 THEN -1
             ELSE dyn_input_loop(line, length + 1, grown, max_str_size)

\* line: the bytes getchar() yields before '\n' or EOF
get_dyn_input(max_str_size, line, ok) ==
    IF ~ok THEN NULL
    ELSE IF dyn_input_loop(line, 0, CHUNK_SIZE, max_str_size) = -1 THEN NULL
    ELSE LET buffer == CStr(line)
             result == strncpy(malloc(Len(line) + 1), buffer, strlen(buffer))
         IN  [result EXCEPT ![strlen(buffer) + 1] = 0]

str_input_cs(d, line, ok) ==
    Exit(get_dyn_input(MAX_STRING_SIZE, line, ok), 0, ~ok, TRUE)

str_add_input_cs(d, line, ok1, ok2) ==
    IF d = NULL
    THEN LET b == get_dyn_input(MAX_STRING_SIZE, line, ok1)
         IN  IF b = NULL THEN Exit(NULL, -2, ~ok1, TRUE)
             ELSE Exit(b, 0, FALSE, TRUE)
    ELSE LET self_data_size == strlen(d)
             buf == get_dyn_input(MAX_STRING_SIZE - self_data_size, line, ok1)
         IN  IF buf = NULL THEN Exit(d, -1, ~ok1, TRUE)
             ELSE IF ~ok2 THEN Exit(d, -1, TRUE, TRUE)
             ELSE Exit(strcat(realloc(d, self_data_size + strlen(buf) + 1), buf),
                       0, FALSE, TRUE)

\* str_pop_back writes its terminator at p + 1; the write lands outside the
\* allocation when strrchr returned the address of the buffer's last byte
str_pop_back_oob(d, sep) ==
    strrchr(d, sep) # 0 /\ strrchr(d, sep) + 1 > Len(d)

str_pop_back_cs(d, sep, ok) ==
    LET p == strrchr(d, sep)
    IN  IF p = 0 THEN Exit(d, -EINVAL, FALSE, TRUE)
        ELSE LET cut == IF p + 1 > Len(d) THEN d ELSE [d EXCEPT ![p + 1] = 0]
             IN  IF ~ok THEN Exit(cut, -1, TRUE, TRUE)
                 ELSE Exit(realloc(cut, strlen(cut) + 1), 0, FALSE, TRUE)

\* the last occurrence of n in h, where strstr gives the first
strstr_last(h, n) ==
    LET hl == strlen(h)
        nl == strlen(n)
        hits == {i \in 1..(hl + 1) :
                    i + nl - 1 <= hl /\ \A k \in 1..nl : h[i + k - 1] = n[k]}
    IN  IF hits = {} THEN 0 ELSE CHOOSE i \in hits : \A j \in hits : j <= i

\* str_rem_word returning from its two -EINVAL paths without the unlock
str_rem_word_cs_nounlock(d, needle, ok) ==
    LET self_data_size == strlen(d)
        needle_size == strlen(needle)
        L == strstr(d, needle)
    IN  IF needle_size > self_data_size THEN Exit(d, -EINVAL, FALSE, FALSE)
        ELSE IF L = 0 THEN Exit(d, -EINVAL, FALSE, FALSE)
        ELSE LET moved == memmove(d, L, L + needle_size,
                                  self_data_size - (L - 1) - needle_size + 1)
                 cut == [moved EXCEPT ![self_data_size - needle_size + 1] = 0]
             IN  IF ~ok THEN Exit(cut, -1, TRUE, TRUE)
                 ELSE Exit(realloc(cut, self_data_size - needle_size + 1),
                           0, FALSE, TRUE)

\* str_rem_word excising the last occurrence
str_rem_word_cs_last(d, needle, ok) ==
    LET self_data_size == strlen(d)
        needle_size == strlen(needle)
        L == strstr_last(d, needle)
    IN  IF needle_size > self_data_size THEN Exit(d, -EINVAL, FALSE, TRUE)
        ELSE IF L = 0 THEN Exit(d, -EINVAL, FALSE, TRUE)
        ELSE LET moved == memmove(d, L, L + needle_size,
                                  self_data_size - (L - 1) - needle_size + 1)
                 cut == [moved EXCEPT ![self_data_size - needle_size + 1] = 0]
             IN  IF ~ok THEN Exit(cut, -1, TRUE, TRUE)
                 ELSE Exit(realloc(cut, self_data_size - needle_size + 1),
                           0, FALSE, TRUE)

str_rem_word_cs(d, needle, ok) ==
    LET self_data_size == strlen(d)
        needle_size == strlen(needle)
        L == strstr(d, needle)
    IN  IF needle_size > self_data_size THEN Exit(d, -EINVAL, FALSE, TRUE)
        ELSE IF L = 0 THEN Exit(d, -EINVAL, FALSE, TRUE)
        ELSE LET moved == memmove(d, L, L + needle_size,
                                  self_data_size - (L - 1) - needle_size + 1)
                 cut == [moved EXCEPT ![self_data_size - needle_size + 1] = 0]
             IN  IF ~ok THEN Exit(cut, -1, TRUE, TRUE)
                 ELSE Exit(realloc(cut, self_data_size - needle_size + 1),
                           0, FALSE, TRUE)

\* str_swap_word replacing the last occurrence
str_swap_word_cs_last(d, word1, word2, ok) ==
    LET self_data_size == strlen(d)
        word1_size == strlen(word1)
        word2_size == strlen(word2)
        L == strstr_last(d, word1)
        new_size == self_data_size - word1_size + word2_size
    IN  IF L = 0 THEN Exit(d, -1, FALSE, TRUE)
        ELSE IF ~ok THEN Exit(d, -1, TRUE, TRUE)
        ELSE LET b1 == strncpy(malloc(new_size + 1), d, L - 1)
                 b2 == [b1 EXCEPT ![L] = 0]
                 b3 == strcat(b2, word2)
                 rest == SubSeq(d, L + word1_size, Len(d))
             IN  Exit(strcat(b3, rest), 0, FALSE, TRUE)

str_swap_word_cs(d, word1, word2, ok) ==
    LET self_data_size == strlen(d)
        word1_size == strlen(word1)
        word2_size == strlen(word2)
        L == strstr(d, word1)
        new_size == self_data_size - word1_size + word2_size
    IN  IF L = 0 THEN Exit(d, -1, FALSE, TRUE)
        ELSE IF ~ok THEN Exit(d, -1, TRUE, TRUE)
        ELSE LET b1 == strncpy(malloc(new_size + 1), d, L - 1)
                 b2 == [b1 EXCEPT ![L] = 0]
                 b3 == strcat(b2, word2)
                 rest == SubSeq(d, L + word1_size, Len(d))
             IN  Exit(strcat(b3, rest), 0, FALSE, TRUE)

str_to_upper_cs(d) ==
    Exit([i \in 1..Len(d) |->
             IF i <= strlen(d) /\ d[i] >= 97 /\ d[i] <= 122
             THEN ClearBit5(d[i]) ELSE d[i]], 0, FALSE, TRUE)

str_to_lower_cs(d) ==
    Exit([i \in 1..Len(d) |->
             IF i <= strlen(d) /\ d[i] >= 65 /\ d[i] <= 90
             THEN SetBit5(d[i]) ELSE d[i]], 0, FALSE, TRUE)

\* the while loop of str_to_title_case, p at index i
RECURSIVE title_loop(_, _, _)
title_loop(s, i, flag) ==
    IF i > Len(s) \/ s[i] = 0 THEN s
    ELSE IF flag /\ s[i] >= 97 /\ s[i] <= 122
         THEN title_loop([s EXCEPT ![i] = ClearBit5(s[i])], i + 1, FALSE)
    ELSE IF s[i] = 32 THEN title_loop(s, i + 1, TRUE)
    ELSE title_loop(s, i + 1, flag)

str_to_title_case_cs(d) == Exit(title_loop(d, 1, TRUE), 0, FALSE, TRUE)

\* the while loop of str_reverse, head and tail as 1-based indices
RECURSIVE reverse_loop(_, _, _)
reverse_loop(s, head, tail) ==
    IF head < tail
    THEN reverse_loop([s EXCEPT ![head] = s[tail], ![tail] = s[head]],
                      head + 1, tail - 1)
    ELSE s

str_reverse_cs(d) == Exit(reverse_loop(d, 1, strlen(d)), 0, FALSE, TRUE)

str_clear_cs(d) == Exit(NULL, 0, FALSE, TRUE)

-----------------------------------------------------------------------------
(* Threads *)

NoArg == [self |-> TRUE, w1 |-> NULL, w2 |-> NULL, sep |-> 0]
Args(self, w1, w2, sep) == [self |-> self, w1 |-> w1, w2 |-> w2, sep |-> sep]

\* the marker of `appended` once anything but str_add has been called
Mixed == <<-1>>

CurLen == IF data = NULL THEN 0 ELSE strlen(data)
\* the histories are kept for the single-threaded runs only
Snapshot == IF Concurrent THEN NULL ELSE data
Log(l) == IF Concurrent THEN Mixed ELSE l
Mark(t, kind) == [fault EXCEPT ![t] = IF @ = "none" THEN kind ELSE @]

\* the process runs until a thread takes a fatal signal
Running == \A t \in AllThreads : pc[t] # "trap"

\* the functions whose critical section dereferences self->data unchecked
NeedsData(o) ==
    o \in {"str_pop_back", "str_rem_word", "str_swap_word", "str_to_upper",
           "str_to_lower", "str_to_title_case", "str_reverse"}

Local(t, p, o, a, r, failed) ==
    /\ pc' = [pc EXCEPT ![t] = p]
    /\ op' = [op EXCEPT ![t] = o]
    /\ arg' = [arg EXCEPT ![t] = a]
    /\ ret' = [ret EXCEPT ![t] = r]
    /\ oom' = [oom EXCEPT ![t] = failed]

\* thread t may start a call: it calls the library, has no call in progress,
\* and the handle has not been handed to str_free
Idle(t) == Running /\ t \in threads /\ pc[t] = "idle" /\ ~destroyed

\* a call whose checks before the lock read no byte of the buffer:
\* bad tells whether they reject the call, with status r
Call(t, o, a, bad, r, log) ==
    /\ Local(t, IF bad THEN "ret" ELSE "lock", o, a, IF bad THEN r ELSE 0, FALSE)
    /\ pre' = Snapshot
    /\ appended' = Log(log)
    /\ UNCHANGED <<regVars, handleVars, threads, held, fault>>

\* a call whose checks before the lock also run strlen(self->data)
CallDeref(t, o, a, bad, r, log) ==
    /\ \E crash \in (IF a.self /\ dangling THEN BOOLEAN ELSE {FALSE}) :
          Local(t, IF crash THEN "trap" ELSE IF bad THEN "ret" ELSE "lock",
                o, a, IF bad THEN r ELSE 0, FALSE)
    /\ fault' = IF a.self /\ dangling THEN Mark(t, "use_after_free") ELSE fault
    /\ pre' = Snapshot
    /\ appended' = Log(log)
    /\ UNCHANGED <<regVars, handleVars, threads, held>>

\* pthread_mutex_lock(&self->lock)
Lock(t) ==
    /\ Running
    /\ pc[t] = "lock" /\ lock = 0
    /\ lock' = t
    /\ held' = [held EXCEPT ![t] = @ + 1]
    /\ pc' = [pc EXCEPT ![t] = "cs"]
    /\ fault' = IF self_freed THEN Mark(t, "use_after_free") ELSE fault
    /\ UNCHANGED <<regVars, data, is_dynamic, dangling, self_freed, destroyed, threads,
                   op, arg, ret, oom, pre, appended>>

\* the end of a critical section with outcome r; next is the thread's next pc,
\* ub the undefined behaviour the section itself executed, or "none"
Leave(t, r, next, ub, log) ==
    /\ data' = r.data
    /\ dangling' = IF r.data = data THEN dangling ELSE FALSE
    /\ lock' = IF r.unlock THEN 0 ELSE lock
    /\ held' = [held EXCEPT ![t] = IF r.unlock THEN @ - 1 ELSE @]
    /\ pc' = [pc EXCEPT ![t] = next]
    /\ ret' = [ret EXCEPT ![t] = r.ret]
    /\ oom' = [oom EXCEPT ![t] = r.oom]
    /\ fault' = IF self_freed \/ (dangling /\ op[t] # "str_input")
                THEN Mark(t, "use_after_free")
                ELSE IF ub # "none" THEN Mark(t, ub) ELSE fault
    /\ appended' = Log(log)
    /\ UNCHANGED <<regVars, is_dynamic, self_freed, destroyed, threads, op, arg, pre>>

InCs(t, o) ==
    Running /\ pc[t] = "cs" /\ op[t] = o /\ (NeedsData(o) => data # NULL)

\* a thread dereferences NULL or freed memory, or writes outside the buffer,
\* and the process is killed
Trap(t) ==
    LET uaf == self_freed \/ (pc[t] = "cs" /\ dangling /\ op[t] # "str_input")
        nul == pc[t] = "cs" /\ NeedsData(op[t]) /\ data = NULL
        oob == /\ pc[t] = "cs" /\ op[t] = "str_pop_back" /\ data # NULL
               /\ str_pop_back_oob(data, arg[t].sep)
    IN  /\ Running
        /\ pc[t] \in {"lock", "cs", "post", "free_null", "free_self"}
        /\ uaf \/ nul \/ oob
        /\ pc' = [pc EXCEPT ![t] = "trap"]
        /\ fault' = Mark(t, IF uaf THEN "use_after_free"
                            ELSE IF nul THEN "null_deref" ELSE "oob_write")
        /\ UNCHANGED <<regVars, handleVars, threads, op, arg, ret, oom, held, pre, appended>>

\* the caller has the result
Return(t) ==
    /\ Running
    /\ pc[t] = "ret"
    /\ Local(t, "idle", "none", NoArg, 0, FALSE)
    /\ pre' = NULL
    /\ fault' = [fault EXCEPT ![t] = "none"]
    /\ UNCHANGED <<regVars, handleVars, threads, held, appended>>

-----------------------------------------------------------------------------
(* str_add *)

str_add(t) ==
    /\ Idle(t)
    /\ \E self \in Selfs, w \in WordArgs :
           /\ (self /\ w # NULL) => CurLen + strlen(w) <= Limit
           /\ Call(t, "str_add", Args(self, w, NULL, 0),
                   ~self \/ w = NULL, -EINVAL, appended)

str_add_locked(t) ==
    /\ InCs(t, "str_add")
    /\ \E ok \in BOOLEAN :
          LET r == str_add_cs(data, arg[t].w1, ok)
          IN  Leave(t, r, "ret", "none",
                    IF r.ret = 0 /\ appended # Mixed
                    THEN appended \o Text(arg[t].w1) ELSE appended)

(* str_input *)

str_input(t) ==
    /\ Idle(t)
    /\ \E self \in Selfs :
           Call(t, "str_input", Args(self, NULL, NULL, 0),
                ~self \/ data # NULL, -1, Mixed)

str_input_locked(t) ==
    /\ InCs(t, "str_input")
    /\ \E line \in Lines, ok \in BOOLEAN :
          Leave(t, str_input_cs(data, line, ok), "post", "none", appended)

\* return (self->data ? 0 : -1), after the unlock
str_input_ret(t) ==
    /\ Running
    /\ pc[t] = "post"
    /\ pc' = [pc EXCEPT ![t] = "ret"]
    /\ ret' = [ret EXCEPT ![t] = IF data # NULL THEN 0 ELSE -1]
    /\ fault' = IF self_freed THEN Mark(t, "use_after_free") ELSE fault
    /\ UNCHANGED <<regVars, handleVars, threads, op, arg, oom, held, pre, appended>>

(* str_add_input *)

str_add_input(t) ==
    /\ Idle(t)
    /\ \E self \in Selfs :
           Call(t, "str_add_input", Args(self, NULL, NULL, 0), ~self, -1, Mixed)

str_add_input_locked(t) ==
    /\ InCs(t, "str_add_input")
    /\ \E line \in Lines, ok1 \in BOOLEAN, ok2 \in BOOLEAN :
          /\ CurLen + Len(line) <= Limit
          /\ Leave(t, str_add_input_cs(data, line, ok1, ok2), "ret", "none", appended)

(* str_pop_back *)

str_pop_back(t) ==
    /\ Idle(t)
    /\ \E self \in Selfs, sep \in Seps :
           CallDeref(t, "str_pop_back", Args(self, NULL, NULL, sep),
                     ~self \/ data = NULL \/ strlen(data) = 0, -1, Mixed)

str_pop_back_locked(t) ==
    /\ InCs(t, "str_pop_back")
    /\ \E ok \in BOOLEAN :
          Leave(t, str_pop_back_cs(data, arg[t].sep, ok), "ret",
                IF str_pop_back_oob(data, arg[t].sep) THEN "oob_write" ELSE "none",
                appended)

(* str_rem_word *)

str_rem_word(t) ==
    /\ Idle(t)
    /\ \E self \in Selfs, needle \in WordArgs :
           Call(t, "str_rem_word", Args(self, needle, NULL, 0),
                ~self \/ data = NULL \/ needle = NULL, -1, Mixed)

str_rem_word_locked(t) ==
    /\ InCs(t, "str_rem_word")
    /\ \E ok \in BOOLEAN :
          Leave(t, str_rem_word_cs(data, arg[t].w1, ok), "ret", "none", appended)

(* str_swap_word *)

str_swap_word(t) ==
    /\ Idle(t)
    /\ \E self \in Selfs, word1 \in WordArgs, word2 \in WordArgs :
           /\ (word1 # NULL /\ word2 # NULL)
                 => CurLen + strlen(word2) <= Limit + strlen(word1)
           /\ Call(t, "str_swap_word", Args(self, word1, word2, 0),
                   ~self \/ data = NULL \/ ~is_dynamic \/ word1 = NULL \/ word2 = NULL,
                   -1, Mixed)

str_swap_word_locked(t) ==
    /\ InCs(t, "str_swap_word")
    /\ \E ok \in BOOLEAN :
          Leave(t, str_swap_word_cs(data, arg[t].w1, arg[t].w2, ok), "ret", "none", appended)

(* str_to_upper, str_to_lower, str_to_title_case, str_reverse *)

str_to_upper(t) ==
    /\ Idle(t)
    /\ \E self \in Selfs :
           Call(t, "str_to_upper", Args(self, NULL, NULL, 0),
                ~self \/ data = NULL, -1, Mixed)

str_to_upper_locked(t) ==
    /\ InCs(t, "str_to_upper")
    /\ Leave(t, str_to_upper_cs(data), "ret", "none", appended)

str_to_lower(t) ==
    /\ Idle(t)
    /\ \E self \in Selfs :
           Call(t, "str_to_lower", Args(self, NULL, NULL, 0),
                ~self \/ data = NULL, -1, Mixed)

str_to_lower_locked(t) ==
    /\ InCs(t, "str_to_lower")
    /\ Leave(t, str_to_lower_cs(data), "ret", "none", appended)

str_to_title_case(t) ==
    /\ Idle(t)
    /\ \E self \in Selfs :
           CallDeref(t, "str_to_title_case", Args(self, NULL, NULL, 0),
                     ~self \/ data = NULL \/ strlen(data) = 0, -1, Mixed)

str_to_title_case_locked(t) ==
    /\ InCs(t, "str_to_title_case")
    /\ Leave(t, str_to_title_case_cs(data), "ret", "none", appended)

str_reverse(t) ==
    /\ Idle(t)
    /\ \E self \in Selfs :
           CallDeref(t, "str_reverse", Args(self, NULL, NULL, 0),
                     ~self \/ data = NULL \/ strlen(data) = 0, -1, Mixed)

str_reverse_locked(t) ==
    /\ InCs(t, "str_reverse")
    /\ Leave(t, str_reverse_cs(data), "ret", "none", appended)

(* str_clear *)

str_clear(t) ==
    /\ Idle(t)
    /\ \E self \in Selfs :
           Call(t, "str_clear", Args(self, NULL, NULL, 0), ~self, 0, Mixed)

str_clear_locked(t) ==
    /\ InCs(t, "str_clear")
    /\ Leave(t, str_clear_cs(data), "ret", "none", appended)

(* str_get_size, str_is_empty: no lock is taken *)

str_get_size(t) ==
    /\ Idle(t)
    /\ \E self \in Selfs :
           CallDeref(t, "str_get_size", Args(self, NULL, NULL, 0), TRUE,
                     IF self /\ data # NULL THEN strlen(data) ELSE 0, appended)

\* with self == NULL the function ends without a return statement
str_is_empty(t) ==
    /\ Idle(t)
    /\ \E self \in Selfs :
           \E r \in (IF ~self THEN {0, 1}
                     ELSE IF data = NULL \/ strlen(data) = 0 THEN {1} ELSE {0}) :
               CallDeref(t, "str_is_empty", Args(self, NULL, NULL, 0), TRUE, r, appended)

(* str_free: no lock is taken; one step per statement *)

\* if (self) if (self->data) free(self->data);
str_free(t) ==
    /\ Idle(t)
    /\ \E self \in Selfs :
          /\ Local(t, IF ~self THEN "ret" ELSE IF data # NULL THEN "free_null"
                      ELSE "free_self",
                   "str_free", Args(self, NULL, NULL, 0), 0, FALSE)
          /\ dangling' = IF self /\ data # NULL THEN TRUE ELSE dangling
          /\ fault' = IF self /\ dangling THEN Mark(t, "double_free") ELSE fault
    /\ pre' = Snapshot
    /\ appended' = Mixed
    /\ UNCHANGED <<regVars, data, is_dynamic, lock, self_freed, destroyed, threads, held>>

\* self->data = NULL;
str_free_null(t) ==
    /\ Running
    /\ pc[t] = "free_null"
    /\ data' = NULL
    /\ dangling' = FALSE
    /\ pc' = [pc EXCEPT ![t] = "free_self"]
    /\ fault' = IF self_freed THEN Mark(t, "use_after_free") ELSE fault
    /\ UNCHANGED <<regVars, is_dynamic, lock, self_freed, destroyed, threads,
                   op, arg, ret, oom, held, pre, appended>>

\* if (self->is_dynamic) { pthread_mutex_destroy(&self->lock); free(self); }
str_free_self(t) ==
    /\ Running
    /\ pc[t] = "free_self"
    /\ self_freed' = (self_freed \/ is_dynamic)
    /\ destroyed' = TRUE
    /\ pc' = [pc EXCEPT ![t] = "ret"]
    /\ fault' = IF self_freed THEN Mark(t, "double_free") ELSE fault
    /\ UNCHANGED <<regVars, data, is_dynamic, lock, dangling, threads,
                   op, arg, ret, oom, held, pre, appended>>

-----------------------------------------------------------------------------
(* Specifications *)

-----------------------------------------------------------------------------
(* struct Pointer_counter: the list of handle references *)

\* the addresses of nodes; 0 is the NULL pointer
Nodes == 1..MaxNodes
\* the addresses of the struct Str objects a caller registers; 0 is NULL
Handles == {1, 2}
\* memory never handed out
NoNode == [str_ptr |-> 0, next |-> 0, counter |-> 0, live |-> FALSE]
\* what a caller may read as the result of a call that ended without a
\* return statement: either status, or another int (1 stands for those)
Unreturned == {-1, 0, 1}

\* the node addresses reached from p through next
RECURSIVE Chain(_, _, _)
Chain(n, p, fuel) ==
    IF p = 0 \/ fuel = 0 THEN <<>> ELSE <<p>> \o Chain(n, n[p].next, fuel - 1)

\* the str_ptr of the nodes of the list rooted at reg_head, in list order
List ==
    LET c == Chain(reg_node, reg_head, MaxNodes)
    IN  [i \in DOMAIN c |-> reg_node[c[i]].str_ptr]

\* reg_head is NULL or the first of a chain of live nodes that ends in NULL
WellFormed ==
    LET c == Chain(reg_node, reg_head, MaxNodes + 1)
    IN  Len(c) <= MaxNodes /\ \A i \in DOMAIN c : reg_node[c[i]].live

\* the outcome of a call: the caller's head, the memory, the status, the
\* undefined behaviour executed, and whether the end of the function was
\* reached without a return statement
Out(hd, n, r, ub, noret) ==
    [head |-> hd, node |-> n, ret |-> r, ub |-> ub, noret |-> noret]

\* pointer_counter_create: calloc at address a; counter = 0
pointer_counter_create(n, a) ==
    [n EXCEPT ![a] = [str_ptr |-> 0, next |-> 0, counter |-> 0, live |-> TRUE]]

\* while (head_ptr->next) head_ptr = head_ptr->next;
RECURSIVE tail_scan(_, _, _)
tail_scan(n, head_ptr, fuel) ==
    IF n[head_ptr].next = 0 \/ fuel = 0 THEN head_ptr
    ELSE tail_scan(n, n[head_ptr].next, fuel - 1)

\* pointer_counter_add(&hd, _str_ptr); a is the address calloc returns when
\* ok, and the allocation fails otherwise
pointer_counter_add_fn(hd, n, _str_ptr, a, ok) ==
    IF _str_ptr = 0 THEN Out(hd, n, -1, "none", FALSE)
    ELSE IF ~ok THEN Out(hd, n, -1, "none", FALSE)
    ELSE LET m == pointer_counter_create(n, a)
         IN  IF hd = 0
             THEN Out(a, [m EXCEPT ![a].counter = @ + 1, ![a].str_ptr = _str_ptr,
                                   ![a].next = 0],
                      0, "none", FALSE)
             ELSE LET head_ptr == tail_scan(m, hd, MaxNodes)
                      linked == [m EXCEPT ![head_ptr].next = a]
                      c == Chain(m, hd, MaxNodes)
                  IN  Out(hd,
                          [linked EXCEPT ![a].counter = @ + 1, ![a].next = 0,
                                         ![a].str_ptr = _str_ptr],
                          0,
                          IF \E i \in DOMAIN c : ~m[c[i]].live
                          THEN "use_after_free" ELSE "none",
                          FALSE)

\* for (size_t i = 0; i < (*head)->counter; i++) { ... } and the end of the
\* function after it
RECURSIVE free_loop(_, _, _, _, _, _, _)
free_loop(hd, n, _str_ptr, i, pc_iter, pc_iter_back, ub) ==
    IF i >= n[hd].counter THEN Out(hd, n, 0, ub, TRUE)
    ELSE IF pc_iter = 0 THEN Out(hd, n, -1, ub, FALSE)
    ELSE LET seen == IF n[pc_iter].live THEN ub ELSE "use_after_free"
         IN  IF n[pc_iter].str_ptr = _str_ptr
             THEN Out(hd,
                      [n EXCEPT ![pc_iter_back].next = n[pc_iter].next,
                                ![pc_iter].live = FALSE],
                      0,
                      IF n[pc_iter].live THEN ub ELSE "double_free",
                      FALSE)
             ELSE free_loop(hd, n, _str_ptr, i + 1, n[pc_iter].next,
                            n[pc_iter_back].next, seen)

\* pointer_counter_free(&hd, _str_ptr)
pointer_counter_free_fn(hd, n, _str_ptr) ==
    IF hd = 0 \/ _str_ptr = 0 THEN Out(hd, n, -1, "none", FALSE)
    ELSE IF n[hd].str_ptr = _str_ptr
         THEN Out(hd, [n EXCEPT ![hd].live = FALSE], 0,
                  IF n[hd].live THEN "none" ELSE "double_free", FALSE)
         ELSE free_loop(hd, n, _str_ptr, 0, n[hd].next, hd,
                        IF n[hd].live THEN "none" ELSE "use_after_free")

\* one call o(&head, h) with outcome r.  A call that touched freed memory is
\* killed or goes on with what the memory still holds; a call that ended
\* without a return statement hands the caller any of Unreturned.
RegStep(o, h, r) ==
    \E crash \in (IF r.ub = "none" THEN {FALSE} ELSE BOOLEAN),
       v \in (IF r.noret THEN Unreturned ELSE {r.ret}) :
        /\ reg_pc' = IF crash THEN "trap" ELSE "run"
        /\ reg_head' = IF crash THEN reg_head ELSE r.head
        /\ reg_node' = IF crash THEN reg_node ELSE r.node
        /\ reg_fault' = IF r.ub # "none" THEN r.ub
                        ELSE IF r.noret THEN "no_return" ELSE "none"
        /\ reg_prev' = reg_last
        /\ reg_last' = [op |-> o, h |-> h, ret |-> v, before |-> List,
                        wf |-> WellFormed]
        /\ UNCHANGED strVars

pointer_counter_add ==
    /\ reg_pc = "run"
    /\ \E h \in Handles \cup {0}, a \in Nodes, ok \in BOOLEAN :
          /\ ~reg_node[a].live
          /\ RegStep("add", h, pointer_counter_add_fn(reg_head, reg_node, h, a, ok))

pointer_counter_free ==
    /\ reg_pc = "run"
    /\ \E h \in Handles \cup {0} :
          RegStep("free", h, pointer_counter_free_fn(reg_head, reg_node, h))

NoCall == [op |-> "none", h |-> 0, ret |-> 0, before |-> <<>>, wf |-> TRUE]

InitRegistry ==
    /\ reg_head = 0
    /\ reg_node = [a \in Nodes |-> NoNode]
    /\ reg_last = NoCall
    /\ reg_prev = NoCall
    /\ reg_fault = "none"
    /\ reg_pc = "run"

\* the state str_init() returns (is_dynamic = 1), or that of a handle the
\* caller keeps on its stack, zeroed, with its mutex initialised
InitHandle ==
    /\ data = NULL
    /\ is_dynamic \in BOOLEAN
    /\ lock = 0
    /\ dangling = FALSE
    /\ self_freed = FALSE
    /\ destroyed = FALSE
    /\ pc = [t \in AllThreads |-> "idle"]
    /\ op = [t \in AllThreads |-> "none"]
    /\ arg = [t \in AllThreads |-> NoArg]
    /\ ret = [t \in AllThreads |-> 0]
    /\ oom = [t \in AllThreads |-> FALSE]
    /\ held = [t \in AllThreads |-> 0]
    /\ pre = NULL
    /\ appended = Log(<<>>)
    /\ fault = [t \in AllThreads |-> "none"]

Init == threads = AllThreads /\ InitHandle /\ InitRegistry
InitSeq == threads = {1} /\ InitHandle /\ InitRegistry

Next ==
    \E t \in AllThreads :
        \/ str_add(t) \/ str_add_locked(t)
        \/ str_input(t) \/ str_input_locked(t) \/ str_input_ret(t)
        \/ str_add_input(t) \/ str_add_input_locked(t)
        \/ str_pop_back(t) \/ str_pop_back_locked(t)
        \/ str_rem_word(t) \/ str_rem_word_locked(t)
        \/ str_swap_word(t) \/ str_swap_word_locked(t)
        \/ str_to_upper(t) \/ str_to_upper_locked(t)
        \/ str_to_lower(t) \/ str_to_lower_locked(t)
        \/ str_to_title_case(t) \/ str_to_title_case_locked(t)
        \/ str_reverse(t) \/ str_reverse_locked(t)
        \/ str_clear(t) \/ str_clear_locked(t)
        \/ str_get_size(t) \/ str_is_empty(t)
        \/ str_free(t) \/ str_free_null(t) \/ str_free_self(t)
        \/ Lock(t) \/ Trap(t) \/ Return(t)

\* two threads share the handle
Spec == Init /\ [][Next]_vars
\* one thread owns the handle
SpecSeq == InitSeq /\ [][Next]_vars

NextReg == pointer_counter_add \/ pointer_counter_free

\* one caller keeps a list of handle references
SpecReg == InitSeq /\ [][NextReg]_vars

-----------------------------------------------------------------------------
(* Properties *)

\* no call is in progress
Quiescent == \A t \in threads : pc[t] \in {"idle", "ret"}

\* thread t has the result of a call of o on a present handle
Returned(t, o) == pc[t] = "ret" /\ op[t] = o /\ arg[t].self

\* n occurs in s at index i; the indices where it does
OccursAt(s, n, i) == i >= 1 /\ i + Len(n) - 1 <= Len(s) /\ SubSeq(s, i, i + Len(n) - 1) = n
Occurrences(s, n) == {i \in 1..(Len(s) + 1) : OccursAt(s, n, i)}
FirstOccurrence(s, n) == CHOOSE i \in Occurrences(s, n) : \A j \in Occurrences(s, n) : i <= j

\* s with the Len(n) bytes at index i replaced by w
Spliced(s, i, n, w) == SubSeq(s, 1, i - 1) \o w \o SubSeq(s, i + Len(n), Len(s))

(* C1: operations of two threads on one handle are linearizable; in        *)
(* particular, already while no thread has called str_free, no thread      *)
(* dereferences a buffer pointer that the other thread has set to NULL,    *)
(* freed or replaced.                                                      *)
NeverFreed == ~destroyed /\ \A t \in threads : op[t] # "str_free"

C1_NoRacyAccess ==
    NeverFreed =>
        \A t \in threads :
            fault[t] \notin {"null_deref", "use_after_free", "double_free"}

(* C2: no operation returns with the handle's lock held: a thread that is  *)
(* not inside a critical section has released the lock as often as it      *)
(* acquired it, and when no call is in progress the lock is free.          *)
C2_LockReleased ==
    /\ \A t \in threads :
          /\ held[t] \in {0, 1}
          /\ pc[t] \notin {"cs", "trap"} => held[t] = 0 /\ lock # t
    /\ (\A t \in threads : pc[t] = "idle") => lock = 0

\* a search that failed inside the critical section has returned, and
\* another thread has since taken the lock
C2_Witness ==
    \E t \in threads, u \in threads :
        /\ Returned(t, "str_rem_word") /\ ret[t] = -EINVAL /\ held[t] = 0
        /\ u # t /\ pc[u] = "cs" /\ lock = u

(* C3: when no call is in progress a present buffer is exactly sized: its  *)
(* only zero byte is its last byte, so the allocation is length + 1 bytes. *)
C3_ExactSize ==
    (Quiescent /\ data # NULL) =>
        /\ Len(data) = strlen(data) + 1
        /\ data[Len(data)] = 0
        /\ \A i \in 1..(Len(data) - 1) : data[i] # 0

(* C4: a call that fails, other than str_add or str_add_input failing for  *)
(* want of memory, leaves the content as it was when the call was made.    *)
C4_FailureAtomic ==
    \A t \in threads :
        (/\ pc[t] = "ret" /\ ret[t] < 0
         /\ ~(op[t] \in {"str_add", "str_add_input"} /\ oom[t]))
        => /\ (data = NULL) = (pre = NULL)
           /\ Text(data) = Text(pre)

(* C5: on a handle that has only been appended to, the content is the      *)
(* concatenation of the arguments of the successful str_add calls in call  *)
(* order, str_get_size returns its length, and an append fails only when   *)
(* the allocator does.                                                     *)
C5_AppendConcat ==
    appended # Mixed =>
        /\ data = NULL => appended = <<>>
        /\ data # NULL => data = CStr(appended)
        /\ \A t \in threads :
              /\ Returned(t, "str_get_size") => ret[t] = Len(appended)
              /\ (Returned(t, "str_add") /\ arg[t].w1 # NULL /\ ~oom[t])
                    => /\ ret[t] = 0
                       /\ pre # NULL => appended = Text(pre) \o Text(arg[t].w1)
                       /\ pre = NULL => appended = Text(arg[t].w1)

\* a second successful append of a non-empty string onto non-empty content
C5_Witness ==
    /\ appended # Mixed
    /\ \E t \in threads :
          /\ Returned(t, "str_add") /\ ret[t] = 0
          /\ pre # NULL /\ strlen(pre) > 0
          /\ arg[t].w1 # NULL /\ strlen(arg[t].w1) > 0

(* C6: str_to_title_case makes uppercase the first alphabetic byte of the  *)
(* string and the first alphabetic byte after each space, and changes no   *)
(* other byte.                                                             *)
IsAlpha(c) == (c >= 65 /\ c <= 90) \/ (c >= 97 /\ c <= 122)
ToUpper(c) == IF c >= 97 /\ c <= 122 THEN c - 32 ELSE c
\* the first alphabetic byte of s after index k (k = 0: of the string)
FirstAlphaAfter(s, k) ==
    {i \in (k + 1)..Len(s) : IsAlpha(s[i]) /\ \A j \in (k + 1)..(i - 1) : ~IsAlpha(s[j])}
TitleStarts(s) ==
    FirstAlphaAfter(s, 0) \cup UNION {FirstAlphaAfter(s, k) : k \in {i \in 1..Len(s) : s[i] = 32}}
TitleCased(s) == [i \in 1..Len(s) |-> IF i \in TitleStarts(s) THEN ToUpper(s[i]) ELSE s[i]]

C6_TitleCase ==
    \A t \in threads :
        (Returned(t, "str_to_title_case") /\ ret[t] = 0)
        => Text(data) = TitleCased(Text(pre))

(* C7: str_pop_back on non-empty content, the allocator permitting: if the *)
(* separator occurs, success and the content ends just after its last      *)
(* occurrence; if it does not occur (the zero byte never does), failure    *)
(* and unchanged content; no byte outside the allocation is written.       *)
C7_Truncate ==
    \A t \in threads :
        (/\ Returned(t, "str_pop_back") /\ pre # NULL /\ strlen(pre) > 0
         /\ ~oom[t])
        => LET old == Text(pre)
               at == {i \in 1..Len(old) : old[i] = arg[t].sep}
           IN  /\ fault[t] # "oob_write"
               /\ at # {} => /\ ret[t] = 0
                             /\ \E i \in at : /\ \A j \in at : j <= i
                                              /\ Text(data) = SubSeq(old, 1, i)
               /\ at = {} => ret[t] < 0 /\ Text(data) = old

C10_DestroyUnderLock ==
    [][((~dangling /\ dangling') \/ (~self_freed /\ self_freed')) => lock = 0]_vars


\* the list l without its i-th element; the first index of h in l
Without(l, i) == SubSeq(l, 1, i - 1) \o SubSeq(l, i + 1, Len(l))
FirstIndex(l, h) ==
    CHOOSE i \in DOMAIN l : l[i] = h /\ \A j \in 1..(i - 1) : l[j] # h

(* C11: pointer_counter_add(&head, h) followed immediately by              *)
(* pointer_counter_free(&head, h) returns 0 and restores the list: head    *)
(* roots a chain of live nodes whose references are those before the add,  *)
(* and is NULL when the list was empty before the add.                     *)
C11_AddThenRemove ==
    (/\ reg_pc = "run"
     /\ reg_prev.op = "add" /\ reg_prev.ret = 0 /\ reg_prev.wf
     /\ reg_last.op = "free" /\ reg_last.h = reg_prev.h)
    => /\ reg_last.ret = 0
       /\ WellFormed
       /\ List = reg_prev.before
       /\ reg_prev.before = <<>> => reg_head = 0

(* C12: pointer_counter_free(&head, h) on a list of live nodes returns a   *)
(* defined status: 0 if some node references h, and then exactly the first *)
(* such node, at whatever position, is unlinked and the others stay linked *)
(* in their order; -1 if no node references h.                             *)
C12_RemoveFirstNode ==
    (reg_pc = "run" /\ reg_last.op = "free" /\ reg_last.wf)
    => LET l == reg_last.before
           h == reg_last.h
       IN  /\ reg_fault = "none"
           /\ IF \E i \in DOMAIN l : l[i] = h
              THEN /\ reg_last.ret = 0
                   /\ WellFormed
                   /\ List = Without(l, FirstIndex(l, h))
              ELSE reg_last.ret = -1 /\ WellFormed /\ List = l

\* the status the search operations give an absent handle
AbsentStatus == -1
\* the status str_rem_word gives a needle longer than the content
TooLongStatus == str_rem_word_cs(CStr(<<>>), CStr(<<97>>), TRUE).ret

(* C13: the search operations tell their failures apart.  str_rem_word     *)
(* gives one status to an absent handle, content or needle and to a needle *)
(* longer than the content, and another one to a needle that fits but does *)
(* not occur; str_pop_back and str_swap_word give an absent handle,        *)
(* content or argument one status and a search without match another one.  *)
C13_DistinctFailures ==
    \A t \in threads :
        LET absent ==
                \/ ~arg[t].self \/ pre = NULL
                \/ op[t] \in {"str_rem_word", "str_swap_word"} /\ arg[t].w1 = NULL
                \/ op[t] = "str_swap_word" /\ arg[t].w2 = NULL
            fits == strlen(arg[t].w1) <= strlen(pre)
            occurs == Occurrences(Text(pre), Text(arg[t].w1)) # {}
        IN  /\ (/\ pc[t] = "ret"
                /\ op[t] \in {"str_rem_word", "str_swap_word", "str_pop_back"}
                /\ absent)
               => ret[t] = AbsentStatus
            /\ (pc[t] = "ret" /\ op[t] = "str_rem_word" /\ ~absent)
               => /\ ~fits => ret[t] = AbsentStatus
                  /\ (fits /\ ~occurs)
                     => ret[t] < 0 /\ ret[t] \notin {AbsentStatus, TooLongStatus}
            /\ (/\ pc[t] = "ret" /\ op[t] = "str_swap_word" /\ ~absent
                /\ is_dynamic /\ ~occurs)
               => ret[t] < 0 /\ ret[t] # AbsentStatus
            /\ (/\ pc[t] = "ret" /\ op[t] = "str_pop_back" /\ ~absent
                /\ strlen(pre) > 0 /\ arg[t].sep # 0
                /\ \A i \in DOMAIN Text(pre) : Text(pre)[i] # arg[t].sep)
               => ret[t] < 0 /\ ret[t] # AbsentStatus

====
